---------------------------- MODULE Spec2Model ----------------------------
(***************************************************************************)
(* Model of the AgentUI orchestration core (src/Visual/agents):            *)
(*   - GeneralManagerAgent._determine_execution_order  (general_manager.py)*)
(*   - InterviewerAgent._validate_brief                (interviewer.py)    *)
(*   - ArchitectAgent._validate_architecture           (architect.py)      *)
(*   - RateLimiter                                     (rate_limiter.py)   *)
(* Each subsystem has its own specification over its own variables; the    *)
(* variables of the other subsystems stay at their idle values.            *)
(***************************************************************************)
EXTENDS Integers, Sequences, FiniteSets, TLC

VARIABLES
    \* ---- execution order (general_manager.py) ----
    plans,          \* component ids of the plans handed to the scheduler, in list order
    edges,          \* the project's edges, in list order: records [from_id, to_id]
    order,          \* the returned execution order: records [component_id, phase]
    order_pc,       \* "input" before the call, "done" after it returned
    \* ---- graph normalization (interviewer.py, architect.py) ----
    project,        \* str(project.summary or project.name) of the project being normalized
    cand_comps,     \* the candidate components (parsed service output), in list order
    cand_edges,     \* the candidate edges, in list order
    runs,           \* the normalization runs made so far on this input: their results
    uuid_draws,     \* number of unique_prefix values drawn so far (uuid4 + clock)
    \* ---- call throttle (rate_limiter.py) ----
    now,            \* time.time(), in seconds
    minute_calls,   \* RateLimiter._minute_calls
    hour_calls,     \* RateLimiter._hour_calls
    rpm,            \* config.requests_per_minute
    rph,            \* config.requests_per_hour
    w_pc,           \* position of the thread in wait_if_needed
    wait_time,      \* the local wait_time of wait_if_needed, and its return value
    slept,          \* seconds the current wait_if_needed has spent in time.sleep
    ticks,          \* number of clock advances between calls so far
    recorded,       \* number of record_call calls so far
    \* ---- external call executor (base_agent.py, _call_cli) ----
    i_pc,           \* position of the thread in _call_cli
    max_retries,    \* the max_retries argument of the current invoke
    attempt,        \* the loop variable of "for attempt in range(max_retries)"
    launches,       \* subprocess.run calls started by the current invoke
    pauses,         \* time.sleep(2) pauses taken by the current invoke
    blocked,        \* seconds the current invoke was blocked on the throttle
    t_entry,        \* the clock when the current invoke was entered
    inv_records,    \* record_call calls made by the current invoke
    outcome,        \* how the last invoke ended: returned or the failure raised
    last_result,    \* result of the most recent finished attempt
    consulted,      \* the throttle was consulted since the last launch
    unconsulted,    \* launches of the current invoke without such a consultation
    invokes,        \* number of invokes started
    launch_times,   \* the clock at every subprocess.run started by this agent
    \* ---- the limiter's lock (rate_limiter.py, threading.Lock) ----
    stack,          \* call stack of the thread inside the limiter's methods
    lock,           \* "free" or "held": self._lock, not reentrant
    status_ret,     \* what the last finished top-level limiter call returned
    status_calls,   \* number of top-level can_call / get_status calls so far
    \* ---- agent instances and their limiters (base_agent.py, __init__) ----
    ag_now,         \* time.time() for the agents
    agent_limiter,  \* agent_limiter[a]: the RateLimiter object of agent a
    limiter_minute, \* limiter_minute[l]: _minute_calls of RateLimiter object l
    limiter_hour,   \* limiter_hour[l]: _hour_calls of RateLimiter object l
    all_recorded,   \* every call recorded in the process: <<agent, time>>
    last_seen,      \* what the last throttle consultation counted
    ag_ticks,       \* number of clock steps taken
    \* ---- response extractor (base_agent.py, parse_json_response) ----
    response,       \* the raw response text, a sequence of lines of tokens
    ex_pc,          \* "ready" before parse_json_response ran, "done" after
    ex_result,      \* the value it returned, or "ValueError"
    \* ---- plan phase (general_manager.py, execute) ----
    gm_project,     \* TRUE when db.get_project finds the project
    gm_components,  \* the project's components, in database order
    gm_edges,       \* the project's edges
    gm_responses,   \* what the external call would print for each call
    gm_result,      \* what execute returned or raised
    gm_saved,       \* the plan attached to each component by _save_component_plan
    \* ---- the phases and their call sites (interviewer.py, architect.py) ----
    ph_env,         \* how the external process behaves during the run
    ph_comps,       \* the project's components when the Plan phase runs
    ph_phase,       \* the phase that was run: "interview", "design" or "plan"
    ph_result,      \* how the run ended
    \* ---- persistence of a phase's graph (_save_to_database) ----
    db_components,  \* rows of the components table: [id, project_id]
    db_edges,       \* rows of the edges table: [project_id, from_id, to_id]
    ps_produced,    \* the components and edges the last run produced
    ps_runs,        \* number of phase runs so far
    \* ---- layout (architect.py, _calculate_layout) ----
    ly_components,  \* arch['components']: records [id, type]
    ly_edges,       \* arch['edges']: records [from, to]
    ly_pc,          \* "input" before _calculate_layout ran, "done" after
    ly_placed,      \* per component, in list order: [level, x, y]
    \* ---- refinement (interviewer.py, refine) ----
    rf_original,    \* the brief handed to refine
    rf_service,     \* the brief the service returns, as parsed
    rf_pc,          \* "input" before refine ran, "done" after
    rf_refined,     \* the brief refine returned
    \* ---- one limiter shared by several threads (rate_limiter.py) ----
    sh_now,         \* time.time()
    sh_minute,      \* _minute_calls of the shared limiter
    sh_hour,        \* _hour_calls of the shared limiter
    sh_rpm,         \* config.requests_per_minute
    sh_pc,          \* sh_pc[t]: position of thread t in its protocol
    sh_wait,        \* sh_wait[t]: the wait_time thread t computed
    sh_wake,        \* sh_wake[t]: the time at which thread t's sleep ends
    sh_recorded     \* the timestamps of all record_call calls made on the limiter

order_vars == <<plans, edges, order, order_pc>>
norm_vars == <<project, cand_comps, cand_edges, runs, uuid_draws>>

throttle_vars == <<now, minute_calls, hour_calls, rpm, rph, w_pc, wait_time,
                   slept, ticks, recorded>>

invoke_vars == <<i_pc, max_retries, attempt, launches, pauses, blocked, t_entry,
                 inv_records, outcome, last_result, consulted, unconsulted, invokes,
                 launch_times>>

\* the variables of the subsystems modelled further down
status_vars == <<stack, lock, status_ret, status_calls>>

agents_vars == <<ag_now, agent_limiter, limiter_minute, limiter_hour, all_recorded,
                 last_seen, ag_ticks>>

extract_vars == <<response, ex_pc, ex_result>>

plan_vars == <<gm_project, gm_components, gm_edges, gm_responses, gm_result, gm_saved>>

phases_vars == <<ph_env, ph_comps, ph_phase, ph_result>>

persist_vars == <<db_components, db_edges, ps_produced, ps_runs>>

layout_vars == <<ly_components, ly_edges, ly_pc, ly_placed>>

refine_vars == <<rf_original, rf_service, rf_pc, rf_refined>>

shared_vars == <<sh_now, sh_minute, sh_hour, sh_rpm, sh_pc, sh_wait, sh_wake, sh_recorded>>

late_vars == <<phases_vars, persist_vars, layout_vars, refine_vars, shared_vars>>

more_vars == <<agents_vars, extract_vars, plan_vars, late_vars>>

rest_vars == <<status_vars, more_vars>>

vars == <<plans, edges, order, order_pc,
          project, cand_comps, cand_edges, runs, uuid_draws,
          now, minute_calls, hour_calls, rpm, rph, w_pc, wait_time,
          slept, ticks, recorded, invoke_vars, rest_vars>>

-----------------------------------------------------------------------------
(* Generic helpers on sequences.                                           *)

Range(s) == {s[i] : i \in DOMAIN s}

SeqsUpTo(S, n) == UNION {[1..k -> S] : k \in 0..n}

\* position of the first occurrence of x in s, 0 if absent
IndexOf(s, x) == IF \E i \in DOMAIN s : s[i] = x
                 THEN CHOOSE i \in DOMAIN s : s[i] = x /\ \A j \in 1..(i-1) : s[j] # x
                 ELSE 0

-----------------------------------------------------------------------------
(* GeneralManagerAgent._determine_execution_order                          *)

MaxPlans == 3
MaxSchedEdges == 3

\* ids of components that can be planned, and ids that never are (the root,
\* which execute() filters out before planning)
PlanIds == {"A", "B", "C"}
SchedIds == PlanIds \cup {"ROOT"}

SchedEdges == [from_id : SchedIds, to_id : SchedIds]

\* keys of component_deps in dict insertion order: a repeated component_id
\* re-assigns the existing key and keeps its first position
RECURSIVE DictKeys(_)
DictKeys(ps) ==
    IF ps = <<>> THEN <<>>
    ELSE LET front == DictKeys(SubSeq(ps, 1, Len(ps) - 1))
             last  == ps[Len(ps)]
         IN  IF last \in Range(front) THEN front ELSE Append(front, last)

\* component_deps[k]['depends_on'] after the loop over the edges
DependsOn(k, es) ==
    SelectSeq([i \in DOMAIN es |-> es[i]], LAMBDA e : e.to_id = k)

ComponentDepsMutantEndpointKeys(ps, es) ==
    [k \in Range(DictKeys(ps)) \cup {es[i].from_id : i \in DOMAIN es} |->
        LET inc == DependsOn(k, es)
        IN  [i \in DOMAIN inc |-> inc[i].from_id]]

ComponentDeps(ps, es) ==
    [k \in Range(DictKeys(ps)) |->
        LET inc == DependsOn(k, es)
        IN  [i \in DOMAIN inc |-> inc[i].from_id]]

\* visit(comp_id): st is the pair of closure variables (order, visited)
RECURSIVE Visit(_, _, _)
RECURSIVE VisitDeps(_, _, _)
VisitDeps(ds, deps, st) ==
    IF ds = <<>> THEN st
    ELSE VisitDeps(Tail(ds), deps, Visit(Head(ds), deps, st))

VisitMutantNoRecurse(comp_id, deps, st) ==
    IF comp_id \in st.visited \/ comp_id \notin DOMAIN deps THEN st
    ELSE [order   |-> Append(st.order, [component_id |-> comp_id,
                                         phase |-> Len(st.order) + 1]),
          visited |-> st.visited \cup {comp_id}]

Visit(comp_id, deps, st) ==
    IF comp_id \in st.visited \/ comp_id \notin DOMAIN deps THEN st
    ELSE LET st1 == [st EXCEPT !.visited = @ \cup {comp_id}]
             st2 == VisitDeps(deps[comp_id], deps, st1)
         IN  [st2 EXCEPT !.order = Append(@, [component_id |-> comp_id,
                                               phase |-> Len(@) + 1])]

DetermineExecutionOrder(ps, es) ==
    LET deps == ComponentDeps(ps, es)
    IN  VisitDeps(DictKeys(ps), deps, [order |-> <<>>, visited |-> {}]).order

OrderIdle ==
    /\ plans = <<>>
    /\ edges = <<>>
    /\ order = <<>>
    /\ order_pc = "idle"

OrderInit ==
    /\ plans \in SeqsUpTo(PlanIds, MaxPlans)
    /\ edges \in SeqsUpTo(SchedEdges, MaxSchedEdges)
    /\ order = <<>>
    /\ order_pc = "input"

\* execute(), Phase 3: execution_order = self._determine_execution_order(plans, edges)
DetermineOrder ==
    /\ order_pc = "input"
    /\ order' = DetermineExecutionOrder(plans, edges)
    /\ order_pc' = "done"
    /\ UNCHANGED <<plans, edges>>
    /\ UNCHANGED <<norm_vars, throttle_vars, invoke_vars, rest_vars>>

OrderNext == DetermineOrder

-----------------------------------------------------------------------------
(* Graph normalization: InterviewerAgent._validate_brief and               *)
(* ArchitectAgent._validate_architecture.                                  *)
(*                                                                         *)
(* A component id is a string in the code; the model keeps the structure   *)
(* the code gives it: kind is the text before the first "_" when the code  *)
(* tests or builds it ("comp", "a", "c", "ROOT"), "raw" for any other      *)
(* string, "none" for a missing id; tag is the hash of an architect id or  *)
(* the name of a raw id, pre the unique_prefix of an interviewer id, idx   *)
(* the trailing index.                                                     *)

MaxComps == 2
MaxNormEdges == 2
MaxRuns == 2

Id(kind, tag, pre, idx) == [kind |-> kind, tag |-> tag, pre |-> pre, idx |-> idx]

NoId == Id("none", "", 0, 0)
CompId(i) == Id("comp", "", 0, i)             \* "comp_<i>"
RawId(name) == Id("raw", name, 0, 0)        \* any other service-chosen id
ArchId(h, i) == Id("a", h, 0, i)              \* f"a_{arch_hash}_{i}"
BriefId(p, i) == Id("c", "", p, i)            \* f"c_{unique_prefix}_{i}"
ArchRootId(h) == Id("ROOT", h, 0, 0)          \* f"ROOT_{arch_hash}"
BriefRootId(p) == Id("ROOT", "", p, 0)        \* f"ROOT_{unique_prefix}"

ProjectTexts == {"p1", "p2"}

\* hashlib.md5(text).hexdigest()[:6]: a fixed function of the text
ArchHash(text) == IF text = "p1" THEN "h1" ELSE "h2"

\* ids the service may give a candidate component: none, one the architect
\* rewrites ("comp_1"), one it keeps ("auth"), and one equal to an id the
\* architect generates for project p1 ("a_h1_1")
CandIds == {NoId, CompId(1), RawId("auth"), ArchId("h1", 1)}

\* ids a candidate edge may name: the candidate ids and one naming nothing
GhostId == RawId("ghost")
EdgeEnds == (CandIds \ {NoId}) \cup {GhostId}

CandComps == [id : CandIds, type : {"root", "node"}]
CandEdges == [from : EdgeEnds, to : EdgeEnds, label : {"uses"}]

Edge(f, t, l) == [from |-> f, to |-> t, label |-> l]

HasRoot(comps) == \E i \in DOMAIN comps : comps[i].type = "root"

\* ---- InterviewerAgent._validate_brief ----

\* old_id = comp.get("id", f"comp_{i}")
OldId(comps, i) == IF comps[i].id = NoId THEN CompId(i - 1) ELSE comps[i].id

\* id_mapping after the loop: a later component overwrites an equal old id
BriefIdMapping(comps, p) ==
    [old \in {OldId(comps, i) : i \in DOMAIN comps} |->
        LET last == CHOOSE i \in DOMAIN comps :
                        /\ OldId(comps, i) = old
                        /\ \A j \in DOMAIN comps : OldId(comps, j) = old => j <= i
        IN  BriefId(p, last - 1)]

BriefRewriteComps(comps, p) ==
    [i \in DOMAIN comps |-> [id |-> BriefId(p, i - 1), type |-> comps[i].type]]

MapEnd(x, m) == IF x \in DOMAIN m THEN m[x] ELSE x

BriefRewriteEdges(es, m) ==
    [i \in DOMAIN es |-> Edge(MapEnd(es[i].from, m), MapEnd(es[i].to, m), es[i].label)]

ValidateBrief(comps, es, p) ==
    LET m      == BriefIdMapping(comps, p)
        comps1 == BriefRewriteComps(comps, p)
        es1    == BriefRewriteEdges(es, m)
    IN  IF ~HasRoot(comps1) /\ comps1 # <<>>
        THEN LET comps2 == <<[id |-> BriefRootId(p), type |-> "root"]>> \o comps1
             IN  [by         |-> "interviewer",
                  components |-> comps2,
                  edges      |-> <<Edge(BriefRootId(p), comps2[2].id, "Initiates")>> \o es1]
        ELSE [by |-> "interviewer", components |-> comps1, edges |-> es1]

\* ---- ArchitectAgent._validate_architecture ----

\* if not comp.get('id') or comp['id'].startswith('comp_'): comp['id'] = f"a_{arch_hash}_{i}"
ArchRewriteComps(comps, h) ==
    [i \in DOMAIN comps |->
        [id   |-> IF comps[i].id = NoId \/ comps[i].id.kind = "comp"
                  THEN ArchId(h, i - 1) ELSE comps[i].id,
         type |-> comps[i].type]]

\* for comp in arch['components'][1:]: append a root edge unless an edge of
\* the list as it stands (root edges appended so far included) points at it
RECURSIVE ArchRootEdges(_, _, _, _)
ArchRootEdges(comps, k, es, root) ==
    IF k > Len(comps) THEN es
    ELSE LET has_incoming == \E j \in DOMAIN es : es[j].to = comps[k].id
         IN  ArchRootEdges(comps, k + 1,
                 IF has_incoming THEN es
                 ELSE Append(es, Edge(root, comps[k].id, "Contains")),
                 root)

\* arch['edges'] = [e for e in arch['edges'] if from in ids and to in ids]
DropDangling(es, comps) ==
    LET component_ids == {comps[i].id : i \in DOMAIN comps}
    IN  SelectSeq(es, LAMBDA e : e.from \in component_ids /\ e.to \in component_ids)

ValidateArchitecture(comps, es, text) ==
    LET h      == ArchHash(text)
        comps1 == ArchRewriteComps(comps, h)
    IN  IF ~HasRoot(comps1)
        THEN LET comps2 == <<[id |-> ArchRootId(h), type |-> "root"]>> \o comps1
                 es2    == ArchRootEdges(comps2, 2, es, ArchRootId(h))
             IN  [by         |-> "architect",
                  components |-> comps2,
                  edges      |-> DropDangling(es2, comps2)]
        ELSE [by         |-> "architect",
              components |-> comps1,
              edges      |-> DropDangling(es, comps1)]

NormIdle ==
    /\ project = ""
    /\ cand_comps = <<>>
    /\ cand_edges = <<>>
    /\ runs = <<>>
    /\ uuid_draws = 0

NormInit ==
    /\ project \in ProjectTexts
    /\ cand_comps \in SeqsUpTo(CandComps, MaxComps)
    /\ cand_edges \in SeqsUpTo(CandEdges, MaxNormEdges)
    /\ runs = <<>>
    /\ uuid_draws = 0

\* InterviewerAgent.execute: brief = self._validate_brief(brief, user_prompt).
\* unique_prefix (uuid4 + millisecond clock) is a value no earlier run drew.
RunValidateBrief ==
    /\ Len(runs) < MaxRuns
    /\ uuid_draws' = uuid_draws + 1
    /\ runs' = Append(runs, ValidateBrief(cand_comps, cand_edges, uuid_draws + 1))
    /\ UNCHANGED <<project, cand_comps, cand_edges>>
    /\ UNCHANGED <<order_vars, throttle_vars, invoke_vars, rest_vars>>

\* ArchitectAgent.execute: architecture = self._validate_architecture(architecture, project)
RunValidateArchitecture ==
    /\ Len(runs) < MaxRuns
    /\ runs' = Append(runs, ValidateArchitecture(cand_comps, cand_edges, project))
    /\ UNCHANGED <<project, cand_comps, cand_edges, uuid_draws>>
    /\ UNCHANGED <<order_vars, throttle_vars, invoke_vars, rest_vars>>

NormNext == RunValidateBrief \/ RunValidateArchitecture

-----------------------------------------------------------------------------
(* RateLimiter (rate_limiter.py), used by one thread.                      *)
(* Time is in whole seconds.  The clock reads made inside one call of       *)
(* wait_if_needed (lines 89, 67, 72) are microseconds apart and return the  *)
(* same value; the clock advances between calls (Tick) and inside           *)
(* time.sleep.                                                              *)

MinuteWindow == 60
HourWindow == 3600

MaxLimit == 2       \* largest requests_per_minute / requests_per_hour configured
MaxCalls == 3       \* record_call is made at most this many times
MaxTicks == 3       \* the clock advances between calls at most this many times

\* amounts by which the clock advances between two calls
TickSteps == {30, HourWindow - MinuteWindow}

Max(a, b) == IF a >= b THEN a ELSE b

\* one list comprehension of _cleanup_old_calls: [t for t in calls if now - t < window]
CleanupOldCalls(calls, t_now, window) ==
    SelectSeq(calls, LAMBDA t : t_now - t < window)

\* one "Check ... limit" block of wait_if_needed, on the cleaned list
WindowWaitMutantStrict(calls, limit, t_now, window) ==
    IF Len(calls) > limit
    THEN Max(0, window - (t_now - calls[1]))
    ELSE 0

WindowWait(calls, limit, t_now, window) ==
    IF Len(calls) >= limit
    THEN Max(0, window - (t_now - calls[1]))
    ELSE 0

\* wait_time as it stands when the with-block of wait_if_needed is left
ComputeWait(m_calls, h_calls, lim_m, lim_h, t_now) ==
    Max(WindowWait(m_calls, lim_m, t_now, MinuteWindow),
        WindowWait(h_calls, lim_h, t_now, HourWindow))

SleepInsideMutantNone(w) == 0

\* seconds spent in "if wait_time > 0: time.sleep(wait_time)"
SleepInside(w) == IF w > 0 THEN w ELSE 0

ThrottleIdle ==
    /\ now = 0
    /\ minute_calls = <<>>
    /\ hour_calls = <<>>
    /\ rpm = 0
    /\ rph = 0
    /\ w_pc = "off"
    /\ wait_time = 0
    /\ slept = 0
    /\ ticks = 0
    /\ recorded = 0

\* RateLimiter.__init__ with a RateLimitConfig
ThrottleInit ==
    /\ now = 0
    /\ minute_calls = <<>>
    /\ hour_calls = <<>>
    /\ rpm \in 1..MaxLimit
    /\ rph \in 1..MaxLimit
    /\ w_pc = "idle"
    /\ wait_time = 0
    /\ slept = 0
    /\ ticks = 0
    /\ recorded = 0

\* time passes between two calls on the limiter
Tick ==
    /\ w_pc = "idle"
    /\ ticks < MaxTicks
    /\ \E d \in TickSteps : now' = now + d
    /\ ticks' = ticks + 1
    /\ UNCHANGED <<minute_calls, hour_calls, rpm, rph, w_pc, wait_time, slept, recorded>>
    /\ UNCHANGED <<order_vars, norm_vars, invoke_vars, rest_vars>>

\* wait_if_needed, lines 60-73: purge both lists, then compute wait_time under the lock
WaitCompute ==
    /\ w_pc = "idle"
    /\ LET m == CleanupOldCalls(minute_calls, now, MinuteWindow)
           h == CleanupOldCalls(hour_calls, now, HourWindow)
       IN  /\ minute_calls' = m
           /\ hour_calls' = h
           /\ wait_time' = ComputeWait(m, h, rpm, rph, now)
    /\ slept' = 0
    /\ w_pc' = "computed"
    /\ UNCHANGED <<now, rpm, rph, ticks, recorded>>
    /\ UNCHANGED <<order_vars, norm_vars, invoke_vars, rest_vars>>

\* wait_if_needed, lines 75-78: sleep when wait_time > 0, then return wait_time
WaitSleepReturn ==
    /\ w_pc = "computed"
    /\ slept' = SleepInside(wait_time)
    /\ now' = now + SleepInside(wait_time)
    /\ w_pc' = "returned"
    /\ UNCHANGED <<minute_calls, hour_calls, rpm, rph, wait_time, ticks, recorded>>
    /\ UNCHANGED <<order_vars, norm_vars, invoke_vars, rest_vars>>

\* the caller takes the returned value; the limiter is ready for the next call
WaitDone ==
    /\ w_pc = "returned"
    /\ w_pc' = "idle"
    /\ UNCHANGED <<now, minute_calls, hour_calls, rpm, rph, wait_time, slept, ticks, recorded>>
    /\ UNCHANGED <<order_vars, norm_vars, invoke_vars, rest_vars>>

\* record_call: append the current time to both lists
RecordCall ==
    /\ w_pc = "idle"
    /\ recorded < MaxCalls
    /\ minute_calls' = Append(minute_calls, now)
    /\ hour_calls' = Append(hour_calls, now)
    /\ recorded' = recorded + 1
    /\ UNCHANGED <<now, rpm, rph, w_pc, wait_time, slept, ticks>>
    /\ UNCHANGED <<order_vars, norm_vars, invoke_vars, rest_vars>>

\* can_call: purge both lists, then compare the counts with the limits
CanCallResult(m_calls, h_calls) == Len(m_calls) < rpm /\ Len(h_calls) < rph

CanCall ==
    /\ w_pc = "idle"
    /\ minute_calls' = CleanupOldCalls(minute_calls, now, MinuteWindow)
    /\ hour_calls' = CleanupOldCalls(hour_calls, now, HourWindow)
    /\ UNCHANGED <<now, rpm, rph, w_pc, wait_time, slept, ticks, recorded>>
    /\ UNCHANGED <<order_vars, norm_vars, invoke_vars, rest_vars>>

ThrottleNext ==
    \/ Tick
    \/ WaitCompute
    \/ WaitSleepReturn
    \/ WaitDone
    \/ RecordCall
    \/ CanCall

-----------------------------------------------------------------------------
(* BaseAgent._call_cli (base_agent.py): one agent, one thread, the agent's  *)
(* own RateLimiter.  The throttle steps are the actions WaitCompute and     *)
(* WaitSleepReturn above, taken while the invoke is at its throttle call.   *)

CliTimeout == 180       \* subprocess.run(..., timeout=180)
RetryPause == 2         \* time.sleep(2) between attempts

MaxRetries == 3         \* largest max_retries passed to _call_cli
MaxInvokes == 2         \* number of _call_cli calls made

\* what one subprocess.run can do: return, TimeoutExpired, CalledProcessError,
\* FileNotFoundError
AttemptResults == {"ok", "timeout", "error", "notfound"}

\* seconds an attempt takes: a timeout takes the whole timeout, anything else
\* is over within the second
AttemptDuration(res) == IF res = "timeout" THEN CliTimeout ELSE 0

\* line 119-121: the caller of wait_if_needed sleeps the returned wait again
CallerSleep(w) == IF w > 0 THEN w ELSE 0

RetryableMutantAll(res) == res # "ok"

\* the except clauses that may go round the loop again (lines 159-176);
\* FileNotFoundError (177-183) raises unconditionally
Retryable(res) == res \in {"timeout", "error"}

MoreAttemptsMutantOneMore(att, n) == att < n

\* "if attempt < max_retries - 1" (lines 161, 171)
MoreAttempts(att, n) == att < n - 1

RecordsAfterMutantAlways(res) == 1

\* number of record_call calls an attempt with this result is followed by (line 153)
RecordsAfter(res) == IF res = "ok" THEN 1 ELSE 0

\* the exception _call_cli raises after a last failing attempt
Raised(res) == CASE res = "timeout" -> "timeout"
                 [] res = "error" -> "process"
                 [] res = "notfound" -> "notfound"

InvokeIdle ==
    /\ i_pc = "off"
    /\ max_retries = 0
    /\ attempt = 0
    /\ launches = 0
    /\ pauses = 0
    /\ blocked = 0
    /\ t_entry = 0
    /\ inv_records = 0
    /\ outcome = "none"
    /\ last_result = "none"
    /\ consulted = FALSE
    /\ unconsulted = 0
    /\ invokes = 0
    /\ launch_times = <<>>

InvokeInit ==
    /\ i_pc = "idle"
    /\ max_retries = 0
    /\ attempt = 0
    /\ launches = 0
    /\ pauses = 0
    /\ blocked = 0
    /\ t_entry = 0
    /\ inv_records = 0
    /\ outcome = "none"
    /\ last_result = "none"
    /\ consulted = FALSE
    /\ unconsulted = 0
    /\ invokes = 0
    /\ launch_times = <<>>

\* _call_cli is entered (lines 109-118) and calls rate_limiter.wait_if_needed()
InvokeBegin ==
    /\ i_pc = "idle"
    /\ w_pc = "idle"
    /\ invokes < MaxInvokes
    /\ \E n \in 1..MaxRetries : max_retries' = n
    /\ invokes' = invokes + 1
    /\ i_pc' = "throttle"
    /\ attempt' = 0
    /\ launches' = 0
    /\ pauses' = 0
    /\ blocked' = 0
    /\ t_entry' = now
    /\ inv_records' = 0
    /\ outcome' = "none"
    /\ last_result' = "none"
    /\ consulted' = FALSE
    /\ unconsulted' = 0
    /\ UNCHANGED launch_times
    /\ UNCHANGED <<throttle_vars, order_vars, norm_vars, rest_vars>>

InvokeWaitCompute == i_pc = "throttle" /\ WaitCompute

InvokeWaitSleepReturn == i_pc = "throttle" /\ WaitSleepReturn

\* lines 118-125: wait_if_needed has returned; when the wait is positive the
\* caller sleeps it; then the retry loop is entered
InvokeCallerSleep ==
    /\ i_pc = "throttle"
    /\ w_pc = "returned"
    /\ now' = now + CallerSleep(wait_time)
    /\ blocked' = slept + CallerSleep(wait_time)
    /\ consulted' = TRUE
    /\ w_pc' = "idle"
    /\ i_pc' = "attempt"
    /\ UNCHANGED <<minute_calls, hour_calls, rpm, rph, wait_time, slept, ticks, recorded>>
    /\ UNCHANGED <<max_retries, attempt, launches, pauses, t_entry, inv_records,
                   outcome, last_result, unconsulted, invokes, launch_times>>
    /\ UNCHANGED <<order_vars, norm_vars, rest_vars>>

\* lines 127-148: one pass of the loop starts the external process
AttemptLaunch ==
    /\ i_pc = "attempt"
    /\ launches' = launches + 1
    /\ launch_times' = Append(launch_times, now)
    /\ unconsulted' = IF consulted THEN unconsulted ELSE unconsulted + 1
    /\ consulted' = FALSE
    /\ i_pc' = "running"
    /\ UNCHANGED <<max_retries, attempt, pauses, blocked, t_entry, inv_records,
                   outcome, last_result, invokes>>
    /\ UNCHANGED <<throttle_vars, order_vars, norm_vars, rest_vars>>

\* lines 150-183: the process ends; record and return, or pause and go round
\* the loop, or raise
AttemptEnd ==
    /\ i_pc = "running"
    /\ \E res \in AttemptResults :
         LET t_end == now + AttemptDuration(res)
             again == Retryable(res) /\ MoreAttempts(attempt, max_retries)
         IN  /\ last_result' = res
             /\ inv_records' = inv_records + RecordsAfter(res)
             /\ recorded' = recorded + RecordsAfter(res)
             /\ minute_calls' = IF RecordsAfter(res) > 0
                                THEN Append(minute_calls, t_end) ELSE minute_calls
             /\ hour_calls' = IF RecordsAfter(res) > 0
                              THEN Append(hour_calls, t_end) ELSE hour_calls
             /\ IF res = "ok"
                THEN /\ outcome' = "returned"
                     /\ i_pc' = "idle"
                     /\ now' = t_end
                     /\ UNCHANGED <<attempt, pauses>>
                ELSE IF Retryable(res)
                THEN /\ pauses' = IF again THEN pauses + 1 ELSE pauses
                     /\ now' = IF again THEN t_end + RetryPause ELSE t_end
                     /\ attempt' = IF again THEN attempt + 1 ELSE attempt
                     /\ IF again
                        THEN IF attempt + 1 < max_retries
                             THEN i_pc' = "attempt" /\ outcome' = outcome
                             ELSE i_pc' = "idle" /\ outcome' = "loop_exhausted"
                        ELSE i_pc' = "idle" /\ outcome' = Raised(res)
                ELSE /\ outcome' = Raised(res)
                     /\ i_pc' = "idle"
                     /\ now' = t_end
                     /\ UNCHANGED <<attempt, pauses>>
    /\ UNCHANGED <<rpm, rph, w_pc, wait_time, slept, ticks>>
    /\ UNCHANGED <<max_retries, launches, blocked, t_entry, consulted, unconsulted,
                   invokes, launch_times>>
    /\ UNCHANGED <<order_vars, norm_vars, rest_vars>>

\* time passes between two invokes
InvokeTick == i_pc = "idle" /\ Tick

InvokeNext ==
    \/ InvokeBegin
    \/ InvokeWaitCompute
    \/ InvokeWaitSleepReturn
    \/ InvokeCallerSleep
    \/ AttemptLaunch
    \/ AttemptEnd
    \/ InvokeTick

-----------------------------------------------------------------------------
(* RateLimiter.can_call, _cleanup_old_calls and get_status                  *)
(* (rate_limiter.py), run by one thread.  self._lock is a threading.Lock:   *)
(* acquiring it blocks until it is free, whoever holds it.                  *)

MaxStatusCalls == 3     \* number of top-level can_call / get_status calls

\* the statements of each method that matter for the lock, in order
Program(fn) ==
    CASE fn = "can_call" -> <<"call_cleanup", "acquire", "body">>
      [] fn = "cleanup" -> <<"acquire", "body">>
      [] fn = "get_status" -> <<"call_cleanup", "acquire", "call_can_call", "body">>

Callee(stmt) == IF stmt = "call_cleanup" THEN "cleanup" ELSE "can_call"

\* at: the statement the method is at; val: what its callee returned, once it did
Frame(fn) == [fn |-> fn, at |-> 1, val |-> FALSE]

Top == stack[Len(stack)]

Stmt(f) == Program(f.fn)[f.at]

SetTop(f) == [stack EXCEPT ![Len(stack)] = f]

\* lines 48-51
CanCallValue == Len(minute_calls) < rpm /\ Len(hour_calls) < rph

\* lines 103-111: the dictionary get_status returns
StatusDict(can) ==
    [minute_calls |-> Len(minute_calls),
     minute_limit |-> rpm,
     minute_remaining |-> rpm - Len(minute_calls),
     hour_calls |-> Len(hour_calls),
     hour_limit |-> rph,
     hour_remaining |-> rph - Len(hour_calls),
     can_call |-> can]

StatusIdle ==
    /\ stack = <<>>
    /\ lock = "free"
    /\ status_ret = [fn |-> "none"]
    /\ status_calls = 0

\* a caller enters can_call or get_status
StatusEnter ==
    /\ stack = <<>>
    /\ w_pc = "idle"
    /\ status_calls < MaxStatusCalls
    /\ \E fn \in {"can_call", "get_status"} : stack' = <<Frame(fn)>>
    /\ status_calls' = status_calls + 1
    /\ UNCHANGED <<lock, status_ret>>
    /\ UNCHANGED <<throttle_vars, invoke_vars, order_vars, norm_vars, more_vars>>

\* lines 46, 101, 110: the method at the top of the stack calls another one
CallInner ==
    /\ stack # <<>>
    /\ Stmt(Top) \in {"call_cleanup", "call_can_call"}
    /\ stack' = Append(SetTop([Top EXCEPT !.at = @ + 1]), Frame(Callee(Stmt(Top))))
    /\ UNCHANGED <<lock, status_ret, status_calls>>
    /\ UNCHANGED <<throttle_vars, invoke_vars, order_vars, norm_vars, more_vars>>

\* "with self._lock:" (lines 47, 90, 102) is entered once the lock is free
Acquire ==
    /\ stack # <<>>
    /\ Stmt(Top) = "acquire"
    /\ lock = "free"
    /\ lock' = "held"
    /\ stack' = SetTop([Top EXCEPT !.at = @ + 1])
    /\ UNCHANGED <<status_ret, status_calls>>
    /\ UNCHANGED <<throttle_vars, invoke_vars, order_vars, norm_vars, more_vars>>

\* the body under the lock runs, the lock is released and the method returns
\* to its caller: _cleanup_old_calls purges both lists (lines 91-92), can_call
\* and get_status return their value (lines 48-51, 103-111)
ReturnInner ==
    /\ stack # <<>>
    /\ Stmt(Top) = "body"
    /\ lock' = "free"
    /\ LET value == CASE Top.fn = "cleanup" -> FALSE
                      [] Top.fn = "can_call" -> CanCallValue
                      [] Top.fn = "get_status" -> StatusDict(Top.val)
           rest == SubSeq(stack, 1, Len(stack) - 1)
       IN  /\ IF Top.fn = "cleanup"
              THEN /\ minute_calls' = CleanupOldCalls(minute_calls, now, MinuteWindow)
                   /\ hour_calls' = CleanupOldCalls(hour_calls, now, HourWindow)
              ELSE UNCHANGED <<minute_calls, hour_calls>>
           /\ IF rest = <<>>
              THEN stack' = rest /\ status_ret' = [fn |-> Top.fn, value |-> value]
              ELSE /\ stack' = [rest EXCEPT ![Len(rest)].val = value]
                   /\ UNCHANGED status_ret
    /\ UNCHANGED <<now, rpm, rph, w_pc, wait_time, slept, ticks, recorded, status_calls>>
    /\ UNCHANGED <<invoke_vars, order_vars, norm_vars, more_vars>>

\* time passes and calls are recorded between two status calls
StatusTick == stack = <<>> /\ Tick

StatusRecordCall == stack = <<>> /\ RecordCall

StatusNext ==
    \/ StatusEnter
    \/ CallInner
    \/ Acquire
    \/ ReturnInner
    \/ StatusTick
    \/ StatusRecordCall

-----------------------------------------------------------------------------
(* Agent instances: BaseAgent.__init__ (base_agent.py) and the limiter each *)
(* agent consults and records into.                                         *)

MaxAgents == 2          \* agent instances constructed in the process
MaxAgentCalls == 3      \* calls recorded by all agents together

NoConsultation == [agent |-> 0, minute |-> 0, hour |-> 0, all_minute |-> 0, all_hour |-> 0]

\* the calls of the whole process that are younger than the window
ProcessCalls(window) ==
    Cardinality({i \in DOMAIN all_recorded : ag_now - all_recorded[i][2] < window})

\* no agent has been constructed yet
AgentsInit ==
    /\ ag_now = 0
    /\ agent_limiter = <<>>
    /\ limiter_minute = <<>>
    /\ limiter_hour = <<>>
    /\ all_recorded = <<>>
    /\ last_seen = NoConsultation
    /\ ag_ticks = 0

AgentsIdle == AgentsInit

\* BaseAgent.__init__: "self.rate_limiter = RateLimiter()" constructs a new
\* limiter object, with empty lists, for the agent under construction
NewAgent ==
    /\ Len(agent_limiter) < MaxAgents
    /\ limiter_minute' = Append(limiter_minute, <<>>)
    /\ limiter_hour' = Append(limiter_hour, <<>>)
    /\ agent_limiter' = Append(agent_limiter, Len(limiter_minute) + 1)
    /\ UNCHANGED <<ag_now, all_recorded, last_seen, ag_ticks>>
    /\ UNCHANGED <<order_vars, norm_vars, throttle_vars, invoke_vars, status_vars,
                   extract_vars, plan_vars, late_vars>>

\* agent a's call succeeded: self.rate_limiter.record_call()
AgentRecordCall ==
    /\ Len(all_recorded) < MaxAgentCalls
    /\ \E a \in DOMAIN agent_limiter :
         LET l == agent_limiter[a]
         IN  /\ limiter_minute' = [limiter_minute EXCEPT ![l] = Append(@, ag_now)]
             /\ limiter_hour' = [limiter_hour EXCEPT ![l] = Append(@, ag_now)]
             /\ all_recorded' = Append(all_recorded, <<a, ag_now>>)
    /\ UNCHANGED <<ag_now, agent_limiter, last_seen, ag_ticks>>
    /\ UNCHANGED <<order_vars, norm_vars, throttle_vars, invoke_vars, status_vars,
                   extract_vars, plan_vars, late_vars>>

\* agent a consults its throttle before a call: self.rate_limiter.wait_if_needed()
\* purges the lists of the agent's limiter and compares their lengths with the
\* limits
AgentConsult ==
    /\ \E a \in DOMAIN agent_limiter :
         LET l == agent_limiter[a]
             m == CleanupOldCalls(limiter_minute[l], ag_now, MinuteWindow)
             h == CleanupOldCalls(limiter_hour[l], ag_now, HourWindow)
         IN  /\ limiter_minute' = [limiter_minute EXCEPT ![l] = m]
             /\ limiter_hour' = [limiter_hour EXCEPT ![l] = h]
             /\ last_seen' = [agent |-> a, minute |-> Len(m), hour |-> Len(h),
                              all_minute |-> ProcessCalls(MinuteWindow),
                              all_hour |-> ProcessCalls(HourWindow)]
    /\ UNCHANGED <<ag_now, agent_limiter, all_recorded, ag_ticks>>
    /\ UNCHANGED <<order_vars, norm_vars, throttle_vars, invoke_vars, status_vars,
                   extract_vars, plan_vars, late_vars>>

\* time passes
AgentsTick ==
    /\ ag_ticks < MaxTicks
    /\ \E d \in TickSteps : ag_now' = ag_now + d
    /\ ag_ticks' = ag_ticks + 1
    /\ UNCHANGED <<agent_limiter, limiter_minute, limiter_hour, all_recorded, last_seen>>
    /\ UNCHANGED <<order_vars, norm_vars, throttle_vars, invoke_vars, status_vars,
                   extract_vars, plan_vars, late_vars>>

AgentsNext ==
    \/ NewAgent
    \/ AgentRecordCall
    \/ AgentConsult
    \/ AgentsTick

-----------------------------------------------------------------------------
(* BaseAgent.parse_json_response (base_agent.py).                           *)

(* A text is a sequence of tokens: "FENCE" three backticks, "word" a run of  *)
(* letters, " " a blank, "NL" a line break, "{" "}" "[" "]" the brackets,    *)
(* "kv" the member "a":1 and "1" a number.                                  *)

MaxLines == 3           \* lines of a response

LineShapes ==
    { <<"FENCE">>, <<"FENCE", "word">>, <<" ", "FENCE", " ">>,
      <<"{", "kv", "}">>, <<"[", "1", "]">>, <<"[", "{", "kv", "}", "]">>, <<"1">>,
      <<"word">>, <<"word", " ", "{", "kv", "}">>,
      <<"{">>, <<"}">>, <<"[">>, <<"]">>, <<"kv">>, <<>> }

Responses == UNION {[1..n -> LineShapes] : n \in 1..MaxLines}

RECURSIVE Join(_)
\* join: the lines with a line break between two of them
Join(lines) ==
    IF lines = <<>> THEN <<>>
    ELSE IF Len(lines) = 1 THEN lines[1]
    ELSE lines[1] \o <<"NL">> \o Join(Tail(lines))

RECURSIVE Split(_)
\* split: the lines of a text
Split(text) ==
    IF \A i \in DOMAIN text : text[i] # "NL" THEN <<text>>
    ELSE LET k == CHOOSE i \in DOMAIN text :
                      text[i] = "NL" /\ \A j \in 1..(i - 1) : text[j] # "NL"
         IN  <<SubSeq(text, 1, k - 1)>> \o Split(SubSeq(text, k + 1, Len(text)))

IsSpace(tok) == tok \in {" ", "NL"}

RECURSIVE LStrip(_)
LStrip(text) ==
    IF text # <<>> /\ IsSpace(Head(text)) THEN LStrip(Tail(text)) ELSE text

RECURSIVE RStrip(_)
RStrip(text) ==
    IF text # <<>> /\ IsSpace(text[Len(text)])
    THEN RStrip(SubSeq(text, 1, Len(text) - 1)) ELSE text

\* str.strip()
Strip(text) == RStrip(LStrip(text))

NotSpace(tok) == ~IsSpace(tok)

RECURSIVE IsJsonValue(_)
\* the token sequences, blanks left out, that are one JSON text
IsJsonValue(toks) ==
    \/ toks = <<"1">>
    \/ toks = <<"{", "}">>
    \/ toks = <<"{", "kv", "}">>
    \/ /\ Len(toks) >= 2
       /\ toks[1] = "["
       /\ toks[Len(toks)] = "]"
       /\ \/ Len(toks) = 2
          \/ IsJsonValue(SubSeq(toks, 2, Len(toks) - 1))

Failed == [ok |-> FALSE, value |-> <<>>]

\* json.loads(text): the parsed value, or JSONDecodeError; blanks and line
\* breaks around the tokens of a JSON text are skipped
JsonLoads(text) ==
    LET toks == SelectSeq(text, NotSpace)
    IN  IF IsJsonValue(toks) THEN [ok |-> TRUE, value |-> toks] ELSE Failed

Positions(text, tok) == {i \in DOMAIN text : text[i] = tok}

Least(S) == CHOOSE x \in S : \A y \in S : x <= y

Greatest(S) == CHOOSE x \in S : \A y \in S : x >= y

\* re.search(open [\s\S]* close, text): the leftmost match, which runs from the
\* first opening bracket to the last closing bracket after it; <<>> when the
\* pattern does not match
Search(text, open, close) ==
    LET opens == Positions(text, open)
        closes == Positions(text, close)
    IN  IF opens = {} \/ closes = {} \/ Greatest(closes) < Least(opens)
        THEN <<>>
        ELSE SubSeq(text, Least(opens), Greatest(closes))

IsFenceLine(line) == Strip(line) = <<"FENCE">>

\* lines 206-210: the index of the last line, after the first, that is a bare
\* fence; the index of the last line when there is none
EndIdx(lines) ==
    LET fences == {i \in 2..Len(lines) : IsFenceLine(lines[i])}
    IN  IF fences = {} THEN Len(lines) ELSE Greatest(fences)

\* lines 203-212: a text that starts with a fence marker loses its first line
\* and everything from line EndIdx on
RemoveCodeBlock(text) ==
    IF text # <<>> /\ Head(text) = "FENCE"
    THEN LET lines == Split(text)
         IN  Join(SubSeq(lines, 2, EndIdx(lines) - 1))
    ELSE text

\* lines 214-237: direct parse, then the object span, then the array span
ParseStages(text) ==
    LET direct == JsonLoads(text)
        object == JsonLoads(Search(text, "{", "}"))
        array == JsonLoads(Search(text, "[", "]"))
    IN  IF direct.ok THEN [raised |-> FALSE, value |-> direct.value]
        ELSE IF object.ok THEN [raised |-> FALSE, value |-> object.value]
        ELSE IF array.ok THEN [raised |-> FALSE, value |-> array.value]
        ELSE [raised |-> TRUE, value |-> <<>>]

\* parse_json_response(response)
ParseJsonResponse(raw) == ParseStages(RemoveCodeBlock(Strip(raw)))

NoResult == [raised |-> FALSE, value |-> <<"none">>]

ExtractIdle ==
    /\ response = <<>>
    /\ ex_pc = "off"
    /\ ex_result = NoResult

ExtractInit ==
    /\ response \in Responses
    /\ ex_pc = "ready"
    /\ ex_result = NoResult

Extract ==
    /\ ex_pc = "ready"
    /\ ex_result' = ParseJsonResponse(Join(response))
    /\ ex_pc' = "done"
    /\ UNCHANGED response
    /\ UNCHANGED <<order_vars, norm_vars, throttle_vars, invoke_vars, status_vars,
                   agents_vars, plan_vars, late_vars>>

ExtractNext == Extract

-----------------------------------------------------------------------------
(* GeneralManagerAgent.execute (general_manager.py).                        *)

MaxGmComps == 3         \* components of the project, the root included
MaxGmEdges == 1         \* edges of the project

\* a component row: the root has type 'root'
GmComp(id) == [id |-> id, type |-> IF id = "ROOT" THEN "root" ELSE "node"]

\* the component lists a project can have: ids are primary keys
GmComponentLists ==
    {cs \in SeqsUpTo({GmComp(id) : id \in SchedIds}, MaxGmComps) :
        \A i, j \in DOMAIN cs : i # j => cs[i].id # cs[j].id}

\* what the external process prints when it succeeds: an object, an object that
\* carries revised plans under 'validated_plans', or text that is not JSON
CliOutputs == {"json_object", "json_revised", "not_json"}

\* the ways every attempt of an invoke can fail: TimeoutExpired,
\* CalledProcessError, FileNotFoundError
CliFailures == {"timeout", "error", "notfound"}

CliBehaviours == CliOutputs \cup CliFailures

\* the parameters of BaseAgent.call_claude after self, and those without a default
CallClaudeParams == {"prompt", "system", "expect_json", "max_retries"}

CallClaudeRequired == {"prompt"}

\* the keywords GeneralManagerAgent passes to self.call_claude (lines 137-140
\* and 239-242)
GmCallKeywords == {"system_prompt", "user_prompt"}

\* a Python call with keyword arguments only: every keyword must name a
\* parameter and every parameter without a default must be given, or the
\* call raises TypeError before the body runs
CallClaude(keywords, out) ==
    IF keywords \subseteq CallClaudeParams /\ CallClaudeRequired \subseteq keywords
    THEN IF out \in CliFailures
         THEN [raised |-> "RuntimeError", response |-> "none"]
         ELSE [raised |-> "none", response |-> out]
    ELSE [raised |-> "TypeError", response |-> "none"]

\* _create_component_plan: the call, then json.loads or the fallback plan
CreateComponentPlan(comp, out) ==
    LET r == CallClaude(GmCallKeywords, out)
    IN  [raised |-> r.raised,
         plan |-> [component_id |-> comp.id, fallback |-> r.response = "not_json",
                   revised |-> FALSE]]

\* _validate_plans: the call, then the plans of the answer or the given plans
ValidatePlans(ps, out) ==
    LET r == CallClaude(GmCallKeywords, out)
    IN  [raised |-> r.raised,
         plans |-> IF r.response = "json_revised"
                   THEN [i \in DOMAIN ps |-> [ps[i] EXCEPT !.revised = TRUE]]
                   ELSE ps]

Raise(exc) == [raised |-> exc, plans |-> <<>>, order |-> <<>>]

IsPlannable(c) == c.type # "root"

\* execute(project_id)
Execute(found, comps, es, out) ==
    IF ~found THEN Raise("ValueError")
    ELSE LET plannable == SelectSeq(comps, IsPlannable)
             made == [i \in DOMAIN plannable |-> CreateComponentPlan(plannable[i], out)]
         IN  IF \E i \in DOMAIN made : made[i].raised # "none"
             THEN Raise(made[1].raised)
             ELSE LET v == ValidatePlans([i \in DOMAIN made |-> made[i].plan], out)
                  IN  IF v.raised # "none" THEN Raise(v.raised)
                      ELSE [raised |-> "none",
                            plans |-> v.plans,
                            order |-> DetermineExecutionOrder(
                                        [i \in DOMAIN v.plans |-> v.plans[i].component_id],
                                        es)]

\* lines 75-81: the plans _save_component_plan has attached to the components
\* when execute ends; a plan is attached as soon as it is created
SavedPlans(found, comps, out) ==
    IF ~found THEN <<>>
    ELSE LET plannable == SelectSeq(comps, IsPlannable)
             made == [i \in DOMAIN plannable |-> CreateComponentPlan(plannable[i], out)]
             good == {i \in DOMAIN made : \A j \in 1..i : made[j].raised = "none"}
         IN  [i \in 1..Cardinality(good) |-> made[i].plan]

Pending == [raised |-> "pending", plans |-> <<>>, order |-> <<>>]

PlanIdle ==
    /\ gm_project = FALSE
    /\ gm_components = <<>>
    /\ gm_edges = <<>>
    /\ gm_responses = "none"
    /\ gm_result = [raised |-> "off", plans |-> <<>>, order |-> <<>>]
    /\ gm_saved = <<>>

PlanInit ==
    /\ gm_project \in BOOLEAN
    /\ gm_components \in GmComponentLists
    /\ gm_edges \in SeqsUpTo(SchedEdges, MaxGmEdges)
    /\ gm_responses \in CliBehaviours
    /\ gm_result = Pending
    /\ gm_saved = <<>>

GmExecute ==
    /\ gm_result = Pending
    /\ gm_result' = Execute(gm_project, gm_components, gm_edges, gm_responses)
    /\ gm_saved' = SavedPlans(gm_project, gm_components, gm_responses)
    /\ UNCHANGED <<gm_project, gm_components, gm_edges, gm_responses>>
    /\ UNCHANGED <<order_vars, norm_vars, throttle_vars, invoke_vars, status_vars,
                   agents_vars, extract_vars, late_vars>>

PlanNext == GmExecute

-----------------------------------------------------------------------------
(* The phases and the call sites that need structured output:              *)
(* InterviewerAgent.execute, ArchitectAgent.execute and                     *)
(* GeneralManagerAgent.execute.                                             *)

\* the keywords of the calls at interviewer.py:71-75 and architect.py:86-90
AgentCallKeywords == {"prompt", "system", "expect_json"}

\* a response text of each kind, for parse_json_response
ResponseText(out) ==
    IF out = "not_json" THEN <<"word">> ELSE <<"{", "kv", "}">>

\* the body of the try block of both agents: call_claude, then
\* parse_json_response; the exception that leaves it, or "none"
TryCallAndParse(keywords, env) ==
    LET r == CallClaude(keywords, env)
    IN  IF r.raised # "none" THEN r.raised
        ELSE IF ParseJsonResponse(ResponseText(r.response)).raised THEN "ValueError"
        ELSE "none"

\* InterviewerAgent.execute: "except Exception" replaces whatever was raised by
\* _fallback_brief, and the run goes on to validate and save
InterviewerExecute(env) ==
    [raised |-> "none", fallback |-> TryCallAndParse(AgentCallKeywords, env) # "none"]

\* ArchitectAgent.execute: the same with _fallback_architecture, for a project
\* that exists
ArchitectExecute(found, env) ==
    IF ~found THEN [raised |-> "ValueError", fallback |-> FALSE]
    ELSE [raised |-> "none", fallback |-> TryCallAndParse(AgentCallKeywords, env) # "none"]

\* GeneralManagerAgent.execute for a project that exists
PlanExecute(comps, env) ==
    LET r == Execute(TRUE, comps, <<>>, env)
    IN  [raised |-> r.raised,
         fallback |-> r.raised = "none" /\ \A i \in DOMAIN r.plans : r.plans[i].fallback]

PhasesIdle ==
    /\ ph_env = "none"
    /\ ph_comps = <<>>
    /\ ph_phase = "off"
    /\ ph_result = [raised |-> "none", fallback |-> FALSE]

PhasesInit ==
    /\ ph_env \in CliBehaviours
    /\ ph_comps \in GmComponentLists
    /\ ph_phase = "none"
    /\ ph_result = [raised |-> "none", fallback |-> FALSE]

RunInterview ==
    /\ ph_phase = "none"
    /\ ph_phase' = "interview"
    /\ ph_result' = InterviewerExecute(ph_env)
    /\ UNCHANGED <<ph_env, ph_comps>>
    /\ UNCHANGED <<order_vars, norm_vars, throttle_vars, invoke_vars, status_vars,
                   agents_vars, extract_vars, plan_vars>>
    /\ UNCHANGED <<persist_vars, layout_vars, refine_vars, shared_vars>>

RunDesign ==
    /\ ph_phase = "none"
    /\ ph_phase' = "design"
    /\ ph_result' = ArchitectExecute(TRUE, ph_env)
    /\ UNCHANGED <<ph_env, ph_comps>>
    /\ UNCHANGED <<order_vars, norm_vars, throttle_vars, invoke_vars, status_vars,
                   agents_vars, extract_vars, plan_vars>>
    /\ UNCHANGED <<persist_vars, layout_vars, refine_vars, shared_vars>>

RunPlan ==
    /\ ph_phase = "none"
    /\ ph_phase' = "plan"
    /\ ph_result' = PlanExecute(ph_comps, ph_env)
    /\ UNCHANGED <<ph_env, ph_comps>>
    /\ UNCHANGED <<order_vars, norm_vars, throttle_vars, invoke_vars, status_vars,
                   agents_vars, extract_vars, plan_vars>>
    /\ UNCHANGED <<persist_vars, layout_vars, refine_vars, shared_vars>>

PhasesNext ==
    \/ RunInterview
    \/ RunDesign
    \/ RunPlan

-----------------------------------------------------------------------------
(* _save_to_database of the Interview and Design phases.                    *)

MaxPhaseRuns == 3       \* phase runs on the database
MaxSaveComps == 2       \* components one run produces

ProjectIds == {"p1", "p2"}

\* the id of the i-th component of an Interview run: c_<unique_prefix>_<i>,
\* with a prefix drawn anew by every run (interviewer.py:124, 132)
InterviewId(run, i) == [kind |-> "c", run |-> run, proj |-> "-", idx |-> i]

\* the id of the i-th component of a Design run: a_<arch_hash>_<i>, the hash
\* taken from the project (architect.py:190, 196)
DesignId(proj, i) == [kind |-> "a", run |-> 0, proj |-> proj, idx |-> i]

ComponentRow(id, proj) == [id |-> id, project_id |-> proj]

EdgeRow(proj, f, t) == [project_id |-> proj, from_id |-> f, to_id |-> t]

\* the edges a run produces between its components: none, or a chain
ProducedChain(ids) == {<<ids[i], ids[i + 1]>> : i \in 1..(Len(ids) - 1)}

\* create_component is INSERT OR REPLACE on the primary key id (database.py:162)
InsertOrReplace(table, rows) ==
    {r \in table : \A n \in rows : n.id # r.id} \cup rows

\* delete_components / delete_edges (database.py:702-712)
DeleteByProject(table, proj) == {r \in table : r.project_id # proj}

NothingProduced == [phase |-> "off", project_id |-> "none", components |-> {}, edges |-> {}]

\* an empty database
PersistInit ==
    /\ db_components = {}
    /\ db_edges = {}
    /\ ps_produced = NothingProduced
    /\ ps_runs = 0

PersistIdle == PersistInit

\* InterviewerAgent._save_to_database(brief, project_id): the project row is
\* created or updated, then every component and every edge of the brief is
\* inserted (lines 281-316)
InterviewSave ==
    /\ ps_runs < MaxPhaseRuns
    /\ \E proj \in ProjectIds, n \in 1..MaxSaveComps, chained \in BOOLEAN :
         LET ids == [i \in 1..n |-> InterviewId(ps_runs + 1, i)]
             comps == {ComponentRow(ids[i], proj) : i \in 1..n}
             es == IF chained
                   THEN {EdgeRow(proj, e[1], e[2]) : e \in ProducedChain(ids)}
                   ELSE {}
         IN  /\ db_components' = InsertOrReplace(db_components, comps)
             /\ db_edges' = db_edges \cup es
             /\ ps_produced' = [phase |-> "interview", project_id |-> proj,
                                components |-> comps, edges |-> es]
    /\ ps_runs' = ps_runs + 1
    /\ UNCHANGED <<order_vars, norm_vars, throttle_vars, invoke_vars, status_vars,
                   agents_vars, extract_vars, plan_vars>>
    /\ UNCHANGED <<phases_vars, layout_vars, refine_vars, shared_vars>>

\* ArchitectAgent._save_to_database(project_id, architecture): the project's
\* components and edges are deleted, then those of the architecture are
\* inserted (lines 335-388); the project exists (execute, lines 72-74)
DesignSave ==
    /\ ps_runs < MaxPhaseRuns
    /\ \E proj \in {r.project_id : r \in db_components},
          n \in 1..MaxSaveComps, chained \in BOOLEAN :
         LET ids == [i \in 1..n |-> DesignId(proj, i)]
             comps == {ComponentRow(ids[i], proj) : i \in 1..n}
             es == IF chained
                   THEN {EdgeRow(proj, e[1], e[2]) : e \in ProducedChain(ids)}
                   ELSE {}
         IN  /\ db_components' = InsertOrReplace(DeleteByProject(db_components, proj), comps)
             /\ db_edges' = DeleteByProject(db_edges, proj) \cup es
             /\ ps_produced' = [phase |-> "design", project_id |-> proj,
                                components |-> comps, edges |-> es]
    /\ ps_runs' = ps_runs + 1
    /\ UNCHANGED <<order_vars, norm_vars, throttle_vars, invoke_vars, status_vars,
                   agents_vars, extract_vars, plan_vars>>
    /\ UNCHANGED <<phases_vars, layout_vars, refine_vars, shared_vars>>

PersistNext ==
    \/ InterviewSave
    \/ DesignSave

-----------------------------------------------------------------------------
(* ArchitectAgent._calculate_layout (architect.py).                         *)

MaxLayoutComps == 3     \* components of an architecture
MaxLayoutEdges == 2     \* edges of an architecture

LayoutIds == {"a", "b", "c"}

LayoutComps == [id : LayoutIds, type : {"root", "node"}]

LayoutEdges == [from : LayoutIds, to : LayoutIds]

LevelStep == 150        \* y = 50 + (level * 150)
TopMargin == 50
SlotWidth == 200        \* width = len(comps) * 200
CanvasCenter == 500     \* canvas_center = 500

\* children.get(parent, []): the children of a parent, in edge order
Children(es, parent) ==
    LET out == SelectSeq(es, LAMBDA e : e.from = parent)
    IN  [i \in DOMAIN out |-> out[i].to]

\* lines 286-293: the first component of type 'root', else the first component
RootId(comps) ==
    LET roots == {i \in DOMAIN comps : comps[i].type = "root"}
    IN  IF roots = {} THEN comps[1].id ELSE comps[Least(roots)].id

RECURSIVE AddChildren(_, _, _)
\* lines 301-304: the loop over the children of the node just taken from the
\* queue; st is the pair (levels, queue)
AddChildren(kids, lvl, st) ==
    IF kids = <<>> THEN st
    ELSE LET child == Head(kids)
         IN  IF child \in DOMAIN st.levels
             THEN AddChildren(Tail(kids), lvl, st)
             ELSE AddChildren(Tail(kids), lvl,
                              [levels |-> [k \in DOMAIN st.levels \cup {child} |->
                                              IF k = child THEN lvl + 1 ELSE st.levels[k]],
                               queue |-> Append(st.queue, child)])

RECURSIVE Bfs(_, _)
\* lines 298-304: while queue: current = queue.pop(0) ...
Bfs(es, st) ==
    IF st.queue = <<>> THEN st.levels
    ELSE LET current == Head(st.queue)
         IN  Bfs(es, AddChildren(Children(es, current), st.levels[current],
                                 [levels |-> st.levels, queue |-> Tail(st.queue)]))

\* lines 295-309: the level of every component
Levels(comps, es) ==
    LET root == RootId(comps)
        found == Bfs(es, [levels |-> [k \in {root} |-> 0], queue |-> <<root>>])
    IN  [i \in DOMAIN comps |->
            IF comps[i].id \in DOMAIN found THEN found[comps[i].id] ELSE 1]

\* lines 311-328: within its level group a component takes the place it has
\* among the components of that level, in list order
CalculateLayout(comps, es) ==
    LET lv == Levels(comps, es)
    IN  [i \in DOMAIN comps |->
            LET group == {j \in DOMAIN comps : lv[j] = lv[i]}
                place == Cardinality({j \in group : j < i})
                width == Cardinality(group) * SlotWidth
                start_x == CanvasCenter - (width \div 2) + 100
            IN  [level |-> lv[i],
                 x |-> start_x + place * SlotWidth,
                 y |-> TopMargin + lv[i] * LevelStep]]

LayoutIdle ==
    /\ ly_components = <<>>
    /\ ly_edges = <<>>
    /\ ly_pc = "off"
    /\ ly_placed = <<>>

\* the architecture _validate_architecture hands over: it has a component of
\* type 'root' and its edges join components of the list
LayoutInit ==
    /\ ly_components \in {cs \in SeqsUpTo(LayoutComps, MaxLayoutComps) :
                              \E i \in DOMAIN cs : cs[i].type = "root"}
    /\ ly_edges \in {es \in SeqsUpTo(LayoutEdges, MaxLayoutEdges) :
                         \A i \in DOMAIN es :
                            /\ \E j \in DOMAIN ly_components : ly_components[j].id = es[i].from
                            /\ \E j \in DOMAIN ly_components : ly_components[j].id = es[i].to}
    /\ ly_pc = "input"
    /\ ly_placed = <<>>

\* execute(): architecture = self._calculate_layout(architecture)
Layout ==
    /\ ly_pc = "input"
    /\ ly_placed' = CalculateLayout(ly_components, ly_edges)
    /\ ly_pc' = "done"
    /\ UNCHANGED <<ly_components, ly_edges>>
    /\ UNCHANGED <<order_vars, norm_vars, throttle_vars, invoke_vars, status_vars,
                   agents_vars, extract_vars, plan_vars>>
    /\ UNCHANGED <<phases_vars, persist_vars, refine_vars, shared_vars>>

LayoutNext == Layout

-----------------------------------------------------------------------------
(* InterviewerAgent.refine and is_ready_for_design (interviewer.py).        *)

(* A brief is reduced to what is_ready_for_design reads: the number of       *)
(* questions, of components that are not the root, of goals, and the value   *)
(* of the key refinement_iteration, Absent when the brief has no such key.   *)

MaxQuestions == 2       \* questions the service asks
MaxBriefComps == 3      \* non-root components of a brief
MaxGoals == 2           \* goals of a brief

Absent == -1

DefaultQuestions == 4   \* the four questions of interviewer.py:210-215

Brief(q, c, g, it) == [questions |-> q, nonroot |-> c, goals |-> g, iteration |-> it]

\* brief.get("refinement_iteration", 0)
GetIteration(b) == IF b.iteration = Absent THEN 0 ELSE b.iteration

\* _validate_brief, lines 207-215: an empty questions list is replaced by the
\* default questions when the brief's refinement_iteration is 0 or missing;
\* the root that lines 174-205 add is not counted in nonroot
ForceQuestions(b) ==
    IF b.questions = 0 /\ GetIteration(b) = 0
    THEN [b EXCEPT !.questions = DefaultQuestions]
    ELSE b

\* refine(original_brief, answers): the service's brief, or a copy of the
\* original when the call or the parse raised (lines 407-418), is validated
\* (line 421) and then given the next iteration number (line 424)
Refine(original, service) ==
    LET got == IF service.ok THEN service.brief ELSE original
    IN  [ForceQuestions(got) EXCEPT !.iteration = GetIteration(original) + 1]

\* is_ready_for_design(brief), lines 455-470
IsReadyForDesign(b) ==
    /\ GetIteration(b) >= 1
    /\ b.questions = 0
    /\ b.nonroot >= 2
    /\ b.goals >= 1

ServiceBriefs ==
    {Brief(q, c, g, it) : q \in 0..MaxQuestions, c \in 0..MaxBriefComps,
                          g \in 0..MaxGoals, it \in {Absent, 0, 1}}

\* the briefs execute and refine return: execute leaves the key out and never
\* returns an empty questions list
OriginalBriefs ==
    {Brief(q, c, g, Absent) : q \in {1, DefaultQuestions}, c \in 0..MaxBriefComps,
                              g \in 0..MaxGoals}
      \cup {Brief(q, c, g, 1) : q \in {0, 1, DefaultQuestions}, c \in 0..MaxBriefComps,
                                g \in 0..MaxGoals}

NoBrief == Brief(0, 0, 0, Absent)

RefineIdle ==
    /\ rf_original = NoBrief
    /\ rf_service = [ok |-> FALSE, brief |-> NoBrief]
    /\ rf_pc = "off"
    /\ rf_refined = NoBrief

RefineInit ==
    /\ rf_original \in OriginalBriefs
    /\ rf_service \in [ok : BOOLEAN, brief : ServiceBriefs]
    /\ rf_pc = "input"
    /\ rf_refined = NoBrief

RunRefine ==
    /\ rf_pc = "input"
    /\ rf_refined' = Refine(rf_original, rf_service)
    /\ rf_pc' = "done"
    /\ UNCHANGED <<rf_original, rf_service>>
    /\ UNCHANGED <<order_vars, norm_vars, throttle_vars, invoke_vars, status_vars,
                   agents_vars, extract_vars, plan_vars>>
    /\ UNCHANGED <<phases_vars, persist_vars, layout_vars, shared_vars>>

RefineNext == RunRefine

-----------------------------------------------------------------------------
(* Several threads on one RateLimiter: wait_if_needed, call, record_call.   *)

(* One RateLimiter used by several threads (rate_limiter.py); each thread    *)
(* runs the protocol of _call_cli: wait_if_needed, the call, record_call.    *)
(* A with-block of the limiter is one step: the lock serializes the blocks   *)
(* and is released between them.                                             *)

MaxThreads == 2         \* threads sharing the limiter
MaxSharedCalls == 3     \* record_call calls made by all threads together
MaxSharedTicks == 2     \* clock advances besides the sleeps

Threads == 1..MaxThreads

DefaultHourLimit == 1000    \* RateLimitConfig.requests_per_hour

SharedIdle ==
    /\ sh_now = 0
    /\ sh_minute = <<>>
    /\ sh_hour = <<>>
    /\ sh_rpm = 0
    /\ sh_pc = [t \in Threads |-> "off"]
    /\ sh_wait = [t \in Threads |-> 0]
    /\ sh_wake = [t \in Threads |-> 0]
    /\ sh_recorded = <<>>

SharedInit ==
    /\ sh_now = 0
    /\ sh_minute = <<>>
    /\ sh_hour = <<>>
    /\ sh_rpm \in 1..MaxLimit
    /\ sh_pc = [t \in Threads |-> "idle"]
    /\ sh_wait = [t \in Threads |-> 0]
    /\ sh_wake = [t \in Threads |-> 0]
    /\ sh_recorded = <<>>

SharedOthersUnchanged ==
    /\ UNCHANGED <<order_vars, norm_vars, throttle_vars, invoke_vars, status_vars,
                   agents_vars, extract_vars, plan_vars>>
    /\ UNCHANGED <<phases_vars, persist_vars, layout_vars, refine_vars>>

\* wait_if_needed, line 60: self._cleanup_old_calls() (lines 87-92)
SharedCleanup(t) ==
    /\ sh_pc[t] = "idle"
    /\ Len(sh_recorded) < MaxSharedCalls
    /\ sh_minute' = CleanupOldCalls(sh_minute, sh_now, MinuteWindow)
    /\ sh_hour' = CleanupOldCalls(sh_hour, sh_now, HourWindow)
    /\ sh_pc' = [sh_pc EXCEPT ![t] = "check"]
    /\ UNCHANGED <<sh_now, sh_rpm, sh_wait, sh_wake, sh_recorded>>
    /\ SharedOthersUnchanged

\* wait_if_needed, lines 63-73: the with-block computes wait_time; lines 75-76
\* and base_agent.py:119-121 then sleep, or the thread goes on to the call
SharedCheck(t) ==
    /\ sh_pc[t] = "check"
    /\ LET w == ComputeWait(sh_minute, sh_hour, sh_rpm, DefaultHourLimit, sh_now)
       IN  /\ sh_wait' = [sh_wait EXCEPT ![t] = w]
           /\ sh_wake' = [sh_wake EXCEPT ![t] = sh_now + SleepInside(w) + CallerSleep(w)]
           /\ sh_pc' = [sh_pc EXCEPT ![t] = IF w > 0 THEN "sleep" ELSE "call"]
    /\ UNCHANGED <<sh_now, sh_minute, sh_hour, sh_rpm, sh_recorded>>
    /\ SharedOthersUnchanged

\* the sleeps of thread t end: the clock has reached at least its wake time
SharedWake(t) ==
    /\ sh_pc[t] = "sleep"
    /\ sh_now' = Max(sh_now, sh_wake[t])
    /\ sh_pc' = [sh_pc EXCEPT ![t] = "call"]
    /\ UNCHANGED <<sh_minute, sh_hour, sh_rpm, sh_wait, sh_wake, sh_recorded>>
    /\ SharedOthersUnchanged

\* base_agent.py:141-148: the external call of thread t is made and returns
SharedCall(t) ==
    /\ sh_pc[t] = "call"
    /\ sh_pc' = [sh_pc EXCEPT ![t] = "record"]
    /\ UNCHANGED <<sh_now, sh_minute, sh_hour, sh_rpm, sh_wait, sh_wake, sh_recorded>>
    /\ SharedOthersUnchanged

\* record_call, lines 80-85
SharedRecordCall(t) ==
    /\ sh_pc[t] = "record"
    /\ sh_minute' = Append(sh_minute, sh_now)
    /\ sh_hour' = Append(sh_hour, sh_now)
    /\ sh_recorded' = Append(sh_recorded, sh_now)
    /\ sh_pc' = [sh_pc EXCEPT ![t] = "idle"]
    /\ UNCHANGED <<sh_now, sh_rpm, sh_wait, sh_wake>>
    /\ SharedOthersUnchanged

\* time passes while no thread is inside the limiter
SharedTick ==
    /\ sh_now < MaxSharedTicks * MinuteWindow
    /\ \E step \in TickSteps : sh_now' = sh_now + step
    /\ UNCHANGED <<sh_minute, sh_hour, sh_rpm, sh_pc, sh_wait, sh_wake, sh_recorded>>
    /\ SharedOthersUnchanged

SharedCleanupStep == \E t \in Threads : SharedCleanup(t)
SharedCheckStep == \E t \in Threads : SharedCheck(t)
SharedWakeStep == \E t \in Threads : SharedWake(t)
SharedCallStep == \E t \in Threads : SharedCall(t)
SharedRecordCallStep == \E t \in Threads : SharedRecordCall(t)

SharedNext ==
    \/ SharedCleanupStep
    \/ SharedCheckStep
    \/ SharedWakeStep
    \/ SharedCallStep
    \/ SharedRecordCallStep
    \/ SharedTick

-----------------------------------------------------------------------------
(* Specifications.                                                         *)

\* the subsystems below are not running
LateIdle ==
    /\ PhasesIdle
    /\ PersistIdle
    /\ LayoutIdle
    /\ RefineIdle
    /\ SharedIdle


InitOrder ==
    /\ OrderInit
    /\ NormIdle
    /\ ThrottleIdle
    /\ InvokeIdle
    /\ StatusIdle
    /\ AgentsIdle
    /\ ExtractIdle
    /\ PlanIdle
    /\ LateIdle

SpecOrder == InitOrder /\ [][OrderNext]_vars

InitNorm ==
    /\ NormInit
    /\ OrderIdle
    /\ ThrottleIdle
    /\ InvokeIdle
    /\ StatusIdle
    /\ AgentsIdle
    /\ ExtractIdle
    /\ PlanIdle
    /\ LateIdle

SpecNorm == InitNorm /\ [][NormNext]_vars

InitThrottle ==
    /\ ThrottleInit
    /\ OrderIdle
    /\ NormIdle
    /\ InvokeIdle
    /\ StatusIdle
    /\ AgentsIdle
    /\ ExtractIdle
    /\ PlanIdle
    /\ LateIdle

SpecThrottle == InitThrottle /\ [][ThrottleNext]_vars

InitInvoke ==
    /\ ThrottleInit
    /\ InvokeInit
    /\ OrderIdle
    /\ NormIdle
    /\ StatusIdle
    /\ AgentsIdle
    /\ ExtractIdle
    /\ PlanIdle
    /\ LateIdle

SpecInvoke == InitInvoke /\ [][InvokeNext]_vars

InitStatus ==
    /\ ThrottleInit
    /\ StatusIdle
    /\ InvokeIdle
    /\ OrderIdle
    /\ NormIdle
    /\ AgentsIdle
    /\ ExtractIdle
    /\ PlanIdle
    /\ LateIdle

SpecStatus == InitStatus /\ [][StatusNext]_vars

InitAgents ==
    /\ AgentsInit
    /\ OrderIdle
    /\ NormIdle
    /\ ThrottleIdle
    /\ InvokeIdle
    /\ StatusIdle
    /\ ExtractIdle
    /\ PlanIdle
    /\ LateIdle

SpecAgents == InitAgents /\ [][AgentsNext]_vars

InitExtract ==
    /\ ExtractInit
    /\ OrderIdle
    /\ NormIdle
    /\ ThrottleIdle
    /\ InvokeIdle
    /\ StatusIdle
    /\ AgentsIdle
    /\ PlanIdle
    /\ LateIdle

SpecExtract == InitExtract /\ [][ExtractNext]_vars

InitPlan ==
    /\ PlanInit
    /\ OrderIdle
    /\ NormIdle
    /\ ThrottleIdle
    /\ InvokeIdle
    /\ StatusIdle
    /\ AgentsIdle
    /\ ExtractIdle
    /\ LateIdle

SpecPlan == InitPlan /\ [][PlanNext]_vars

\* the subsystems above are not running
EarlyIdle ==
    /\ OrderIdle
    /\ NormIdle
    /\ ThrottleIdle
    /\ InvokeIdle
    /\ StatusIdle
    /\ AgentsIdle
    /\ ExtractIdle
    /\ PlanIdle

InitPhases ==
    /\ PhasesInit
    /\ EarlyIdle
    /\ PersistIdle
    /\ LayoutIdle
    /\ RefineIdle
    /\ SharedIdle

SpecPhases == InitPhases /\ [][PhasesNext]_vars

InitPersist ==
    /\ PersistInit
    /\ EarlyIdle
    /\ PhasesIdle
    /\ LayoutIdle
    /\ RefineIdle
    /\ SharedIdle

SpecPersist == InitPersist /\ [][PersistNext]_vars

InitLayout ==
    /\ LayoutInit
    /\ EarlyIdle
    /\ PhasesIdle
    /\ PersistIdle
    /\ RefineIdle
    /\ SharedIdle

SpecLayout == InitLayout /\ [][LayoutNext]_vars

InitRefine ==
    /\ RefineInit
    /\ EarlyIdle
    /\ PhasesIdle
    /\ PersistIdle
    /\ LayoutIdle
    /\ SharedIdle

SpecRefine == InitRefine /\ [][RefineNext]_vars

InitShared ==
    /\ SharedInit
    /\ EarlyIdle
    /\ PhasesIdle
    /\ PersistIdle
    /\ LayoutIdle
    /\ RefineIdle

SpecShared == InitShared /\ [][SharedNext]_vars

-----------------------------------------------------------------------------
(* Properties of the execution order.                                      *)

Planned == Range(plans)

\* nodes reachable in one or more steps from front; rel is a set of pairs <<from, to>>
RECURSIVE ReachFrom(_, _, _)
ReachFrom(front, seen, rel) ==
    LET nxt == {p[2] : p \in {r \in rel : r[1] \in front}} \ seen
    IN  IF nxt = {} THEN seen ELSE ReachFrom(nxt, seen \cup nxt, rel)

PlannedEdgeSet == {e \in Range(edges) : e.from_id \in Planned /\ e.to_id \in Planned}

\* the edge relation restricted to planned components has no cycle
Acyclic ==
    \A n \in Planned :
        n \notin ReachFrom({n}, {}, {<<e.from_id, e.to_id>> : e \in PlannedEdgeSet})

PosInOrder(id) == IndexOf([i \in DOMAIN order |-> order[i].component_id], id)

PhaseOf(id) == order[PosInOrder(id)].phase

\* C1: for an acyclic edge set the execution order places every planned
\* component after all of its planned predecessors: for every edge A->B with
\* both ends planned, A comes earlier in the order than B and has a smaller
\* phase; for plans A, B, C with edges A->B, B->C the order is
\* [A(phase 1), B(phase 2), C(phase 3)].
C1_PredecessorsFirst ==
    (order_pc = "done" /\ Acyclic) =>
        /\ \A e \in PlannedEdgeSet :
              /\ PosInOrder(e.from_id) > 0
              /\ PosInOrder(e.to_id) > 0
              /\ PosInOrder(e.from_id) < PosInOrder(e.to_id)
              /\ PhaseOf(e.from_id) < PhaseOf(e.to_id)
        /\ (/\ plans = <<"A", "B", "C">>
            /\ edges = <<[from_id |-> "A", to_id |-> "B"],
                         [from_id |-> "B", to_id |-> "C"]>>)
           => order = <<[component_id |-> "A", phase |-> 1],
                        [component_id |-> "B", phase |-> 2],
                        [component_id |-> "C", phase |-> 3]>>

\* the chain of section 8 listed against the dependency direction, scheduled
C1_Witness ==
    /\ order_pc = "done"
    /\ plans = <<"C", "B", "A">>
    /\ edges = <<[from_id |-> "B", to_id |-> "C"],
                 [from_id |-> "A", to_id |-> "B"]>>
    /\ order = <<[component_id |-> "A", phase |-> 1],
                 [component_id |-> "B", phase |-> 2],
                 [component_id |-> "C", phase |-> 3]>>

-----------------------------------------------------------------------------
(* Properties of graph normalization.                                      *)

RunIds(r) == {r.components[k].id : k \in DOMAIN r.components}

Roots(r) == {k \in DOMAIN r.components : r.components[k].type = "root"}

\* the run put a synthesized root in front of the candidates
Synthesized(r) == Len(r.components) = Len(cand_comps) + 1

\* position in the result of the candidate at position i
Pos(r, i) == i + (Len(r.components) - Len(cand_comps))

SynthLabels == {"Initiates", "Contains"}

\* C2: after normalization the component list contains exactly one component
\* of type root, for every candidate list (empty, no root, one root, several
\* roots).
C2_ExactlyOneRoot ==
    \A n \in DOMAIN runs : Cardinality(Roots(runs[n])) = 1

\* C3: when normalization synthesizes a root, the result has an edge from the
\* synthesized root to every candidate component that has no incoming edge
\* among the surviving candidate edges, not only to the first one.
C3_RootEdgeToEveryOrphan ==
    \A n \in DOMAIN runs :
        LET r == runs[n]
            root == r.components[1].id
        IN  Synthesized(r) =>
              \A k \in 2..Len(r.components) :
                 (~\E j \in DOMAIN r.edges :
                       /\ r.edges[j].label \notin SynthLabels
                       /\ r.edges[j].to = r.components[k].id)
                 => \E j \in DOMAIN r.edges :
                       /\ r.edges[j].from = root
                       /\ r.edges[j].to = r.components[k].id

\* C4: no returned edge has an endpoint that is not a returned component id,
\* and every edge (candidate or synthesized) whose endpoints both name a
\* returned component is returned: as many candidate edges come back as there
\* are candidate edges that do not dangle.
C4_ExactlyNonDanglingEdges ==
    \A n \in DOMAIN runs :
        LET r == runs[n]
        IN  /\ \A j \in DOMAIN r.edges :
                  r.edges[j].from \in RunIds(r) /\ r.edges[j].to \in RunIds(r)
            /\ Len(SelectSeq(r.edges, LAMBDA e : e.label \notin SynthLabels))
                 <= Len(cand_edges)
            /\ r.by = "architect" =>
                  SelectSeq(r.edges, LAMBDA e : e.label \notin SynthLabels)
                    = SelectSeq(cand_edges,
                                LAMBDA e : e.from \in RunIds(r) /\ e.to \in RunIds(r))

\* C5: after normalization every non-root component is reachable from the
\* root by following edges from -> to, for every candidate edge set.
C5_ReachableFromRoot ==
    \A n \in DOMAIN runs :
        LET r == runs[n]
            rootIds == {r.components[k].id : k \in Roots(r)}
            rel == {<<r.edges[j].from, r.edges[j].to>> : j \in DOMAIN r.edges}
        IN  \A k \in DOMAIN r.components :
               r.components[k].type # "root"
               => r.components[k].id \in ReachFrom(rootIds, rootIds, rel)

\* C6: identity rewriting applies the old -> new id mapping to the edges:
\* every candidate edge whose endpoints both name candidate components comes
\* back connecting the two corresponding rewritten components (none is lost
\* or redirected to another component).
C6_EdgesFollowRewriting ==
    \A n \in DOMAIN runs :
        LET r == runs[n]
            given == {cand_comps[i].id : i \in DOMAIN cand_comps} \ {NoId}
        IN  \A e \in Range(cand_edges) :
               (e.from \in given /\ e.to \in given) =>
                  \E i, j \in DOMAIN cand_comps :
                     /\ cand_comps[i].id = e.from
                     /\ cand_comps[j].id = e.to
                     /\ \E x \in DOMAIN r.edges :
                           /\ r.edges[x].from = r.components[Pos(r, i)].id
                           /\ r.edges[x].to = r.components[Pos(r, j)].id

\* C7: two normalization runs on the same input produce disjoint component
\* id sets: no id issued by one run is issued again by a later run.
C7_RunsDisjoint ==
    \A m, n \in DOMAIN runs :
        m < n => RunIds(runs[m]) \cap RunIds(runs[n]) = {}

\* C8: after normalization the ids of the returned components are pairwise
\* distinct, for every candidate list.
C8_IdsDistinct ==
    \A n \in DOMAIN runs :
        \A k, l \in DOMAIN runs[n].components :
            k # l => runs[n].components[k].id # runs[n].components[l].id

-----------------------------------------------------------------------------
(* Properties of the throttle.                                             *)

Unexpired(calls, window) == {i \in DOMAIN calls : now - calls[i] < window}

\* a window's required wait: 0 while its count of unexpired timestamps is
\* below its limit, else the window length minus the age of its oldest one
RequiredWait(calls, limit, window) ==
    IF Cardinality(Unexpired(calls, window)) < limit THEN 0
    ELSE LET oldest == CHOOSE t \in {calls[i] : i \in Unexpired(calls, window)} :
                          \A i \in Unexpired(calls, window) : t <= calls[i]
         IN  window - (now - oldest)

C10_NoSleepInside ==
    w_pc = "returned" => slept = 0

\* C10 amended: wait_if_needed blocks: before returning it sleeps for exactly
\* the wait it returns (not at all only when that wait is 0).
C10_SleepsReturnedWait ==
    w_pc = "returned" => slept = wait_time

C10_Witness ==
    /\ w_pc = "returned"
    /\ wait_time > 0
    /\ slept = wait_time

-----------------------------------------------------------------------------
(* The external call executor.                                             *)

\* the first attempt of the current invoke is about to be launched
BeforeFirstLaunch == i_pc = "attempt" /\ launches = 0

\* C11: when the minute window is full (and the hour window is not) and its
\* oldest call was elapsed seconds old on entry, the invoke has been blocked
\* on the throttle for MinuteWindow - elapsed seconds in total, not longer,
\* when it launches the external process.
C11_BlocksSixtyMinusElapsed ==
    (BeforeFirstLaunch /\ Len(minute_calls) >= rpm /\ Len(hour_calls) < rph)
        => blocked = MinuteWindow - (t_entry - minute_calls[1])

\* C12: no attempt of an invoke, first or retry, launches the external process
\* without a throttle consultation since the previous launch.
C12_ConsultedBeforeEachAttempt == unconsulted = 0

\* C13: an invoke never launches more than max_retries attempts; when every
\* attempt timed out or exited non-zero it has launched exactly max_retries
\* times and paused max_retries - 1 times when it raises; it pauses only between
\* two attempts; and it returns at its first successful attempt.
C13_AttemptsAndPauses ==
    /\ launches <= max_retries
    /\ outcome # "loop_exhausted"
    /\ outcome \in {"timeout", "process"}
         => launches = max_retries /\ pauses = max_retries - 1
    /\ outcome = "returned" => launches = attempt + 1 /\ pauses = launches - 1
    /\ i_pc = "attempt" => pauses = launches /\ launches < max_retries
    /\ i_pc = "running" => pauses = launches - 1

C13_Witness ==
    /\ outcome \in {"timeout", "process"}
    /\ max_retries >= 3
    /\ launches = max_retries
    /\ pauses = max_retries - 1

\* C14: once an attempt has found the executable missing the invoke has raised
\* that failure: no attempt follows and no pause was taken after it, however
\* many retries remained.
C14_MissingExecutableRaisesAtOnce ==
    last_result = "notfound"
        => i_pc = "idle" /\ outcome = "notfound" /\ pauses = launches - 1

C14_Witness ==
    /\ last_result = "notfound"
    /\ outcome = "notfound"
    /\ launches >= 1
    /\ launches < max_retries

\* C15: the step that ends an attempt calls record_call exactly when the
\* attempt succeeded, appending the time to both windows; an invoke that returns
\* has called it once, an invoke that raises or is still retrying never.
C15_RecordsExactlyOnSuccess ==
    [][ i_pc = "running" =>
          IF last_result' = "ok"
          THEN /\ outcome' = "returned"
               /\ inv_records' = 1
               /\ minute_calls' = Append(minute_calls, now')
               /\ hour_calls' = Append(hour_calls, now')
          ELSE /\ outcome' # "returned"
               /\ inv_records' = 0
               /\ minute_calls' = minute_calls
               /\ hour_calls' = hour_calls ]_vars

C15_Witness ==
    /\ outcome = "returned"
    /\ inv_records = 1
    /\ launches >= 2
    /\ minute_calls # <<>>
    /\ minute_calls[Len(minute_calls)] = now
    /\ hour_calls[Len(hour_calls)] = now

-----------------------------------------------------------------------------
(* The limiter's status inspection.                                        *)

\* the only thread is inside get_status and waits for a lock that is held:
\* nobody else can release it, so the call never returns
BlockedForever ==
    /\ stack # <<>>
    /\ stack[1].fn = "get_status"
    /\ Stmt(Top) = "acquire"
    /\ lock = "held"

\* C16: get_status always returns, even when called from a single thread: it
\* never waits for ever on the limiter's lock, and a status it returned reports
\* for each window remaining = limit - number of unexpired timestamps.
C16_GetStatusReturns ==
    /\ ~BlockedForever
    /\ (status_ret.fn = "get_status" /\ stack = <<>>)
          => /\ status_ret.value.minute_remaining
                  = rpm - Cardinality(Unexpired(minute_calls, MinuteWindow))
             /\ status_ret.value.hour_remaining
                  = rph - Cardinality(Unexpired(hour_calls, HourWindow))

-----------------------------------------------------------------------------
(* Call-rate accounting across agent instances.                            *)

\* C17: the accounting is shared: what an agent's throttle consultation counts
\* in the minute and hour windows is every unexpired call recorded in the
\* process, whichever agent instance recorded it.
C17_AccountingShared ==
    last_seen.agent # 0
        => /\ last_seen.minute = last_seen.all_minute
           /\ last_seen.hour = last_seen.all_hour

-----------------------------------------------------------------------------
(* The response extractor.                                                 *)

TheObject == <<"{", "kv", "}">>

FencedObject == << <<"FENCE", "word">>, TheObject, <<"FENCE">> >>

CommentedObject == << <<"word", " ", "{", "kv", "}">> >>

BareObject == << TheObject >>

\* some stretch of the text is a JSON object or array
ContainsObjectOrArray(text) ==
    \E i \in DOMAIN text : \E j \in i..Len(text) :
        /\ text[i] \in {"{", "["}
        /\ IsJsonValue(SelectSeq(SubSeq(text, i, j), NotSpace))

\* C18: extract returns the object for the object in a fenced block, for
\* commentary followed by the object, and for the bare object; for a response
\* that contains no parsable object or array it fails and returns no value.
C18_ExtractsOrFails ==
    ex_pc = "done" =>
        /\ response \in {FencedObject, CommentedObject, BareObject}
             => ex_result = [raised |-> FALSE, value |-> TheObject]
        /\ ~ContainsObjectOrArray(Join(response)) => ex_result.raised

\* the lines of a fenced text without the first line and without the closing
\* fence line, every other line kept
RECURSIVE Without(_, _)
Without(lines, drop) ==
    IF lines = <<>> THEN <<>>
    ELSE LET n == Len(lines)
             front == Without(SubSeq(lines, 1, n - 1), drop)
         IN  IF n \in drop THEN front ELSE Append(front, lines[n])

FirstAndClosingFenceRemoved(text) ==
    IF text # <<>> /\ Head(text) = "FENCE"
    THEN LET lines == Split(text)
             fences == {i \in 2..Len(lines) : IsFenceLine(lines[i])}
             closing == IF fences = {} THEN {} ELSE {Greatest(fences)}
         IN  Join(Without(lines, {1} \cup closing))
    ELSE text

\* C19: the stages run in the order fence strip, direct parse, object span,
\* array span, the first that parses wins and extraction fails exactly when
\* all fail; of a text that starts with a fence marker only the first line and
\* the closing fence line are removed, the lines between them are parsed.
C19_StagesOnPreservedLines ==
    ex_pc = "done" =>
        ex_result = ParseStages(FirstAndClosingFenceRemoved(Strip(Join(response))))

-----------------------------------------------------------------------------
(* The plan phase.                                                         *)

NonRootIds == {gm_components[i].id : i \in {j \in DOMAIN gm_components :
                                                gm_components[j].type # "root"}}

\* C20: for an existing project with at least one non-root component, whose
\* external calls print parseable output, the run returns: one plan for each
\* non-root component, none for the root, and an execution order over those
\* components.
C20_PlanPhaseCompletes ==
    (gm_result.raised \notin {"off", "pending"} /\ gm_project /\ NonRootIds # {}
       /\ gm_responses = "json_object")
        => /\ gm_result.raised = "none"
           /\ Len(gm_result.plans) = Cardinality(NonRootIds)
           /\ {gm_result.plans[i].component_id : i \in DOMAIN gm_result.plans} = NonRootIds
           /\ {gm_result.order[i].component_id : i \in DOMAIN gm_result.order} = NonRootIds

AllRevised(ps) == \A i \in DOMAIN ps : ps[i].revised

\* C24: in a run on an existing project whose consistency pass prints parseable
\* revised plans, every per-component plan is made before the consistency pass
\* and the revised plans supersede them: the run ends with the revised plans in
\* its work plan and attached to each planned component.
C24_RevisedPlansSupersede ==
    (gm_result.raised \notin {"off", "pending"} /\ gm_project
       /\ gm_responses = "json_revised")
        => /\ gm_result.raised = "none"
           /\ Len(gm_result.plans) = Cardinality(NonRootIds)
           /\ AllRevised(gm_result.plans)
           /\ Len(gm_saved) = Cardinality(NonRootIds)
           /\ AllRevised(gm_saved)

-----------------------------------------------------------------------------
(* Failures at the call sites of the phases.                               *)

PhaseRan == ph_phase \in {"interview", "design", "plan"}

CompletedWithFallback == ph_result.raised = "none" /\ ph_result.fallback

\* C21: an extraction failure is never fatal: a phase whose call site gets a
\* response that cannot be parsed completes, with that site's fallback value.
C21_ExtractionFailureFallsBack ==
    (PhaseRan /\ ph_env = "not_json") => CompletedWithFallback

\* C22: when the invoke raises a timeout or a process failure after its retries,
\* the invoking phase completes with its fallback value; it does not abort.
C22_InvokeFailureFallsBack ==
    (PhaseRan /\ ph_env \in {"timeout", "error"}) => CompletedWithFallback

\* C23: when the executable cannot be found the invoking phase stops with a
\* failure its caller sees; it does not complete with a fallback result.
C23_MissingExecutableStops ==
    (PhaseRan /\ ph_env = "notfound") => ph_result.raised # "none"

-----------------------------------------------------------------------------
(* Re-running a phase.                                                     *)

\* C25: a phase run for a project replaces that project's components and edges
\* wholesale: after the run the persisted components and edges of the project
\* are exactly those the run produced, none of an earlier run remains.
C25_ReplacedWholesale ==
    ps_produced.phase # "off"
        => /\ {r \in db_components : r.project_id = ps_produced.project_id}
                = ps_produced.components
           /\ {r \in db_edges : r.project_id = ps_produced.project_id}
                = ps_produced.edges

-----------------------------------------------------------------------------
(* The layout.                                                             *)

LayoutEdgeSet == {<<ly_edges[i].from, ly_edges[i].to>> : i \in DOMAIN ly_edges}

LayoutRoots == {ly_components[i].id : i \in {j \in DOMAIN ly_components :
                                                 ly_components[j].type = "root"}}

RECURSIVE PathLength(_, _, _, _)
\* the length of the shortest edge path from the front to the target, -1 if none
PathLength(front, seen, target, k) ==
    IF target \in front THEN k
    ELSE LET next == {e[2] : e \in {d \in LayoutEdgeSet : d[1] \in front}} \ seen
         IN  IF next = {} THEN -1
             ELSE PathLength(next, seen \cup next, target, k + 1)

ClaimedLevel(id) ==
    LET d == PathLength(LayoutRoots, LayoutRoots, id, 0)
    IN  IF d = -1 THEN 1 ELSE d

Reordered(seq, perm) == [i \in DOMAIN seq |-> seq[perm[i]]]

LevelById(comps, es, id) ==
    LET lv == Levels(comps, es)
    IN  {lv[i] : i \in {j \in DOMAIN comps : comps[j].id = id}}

\* C26: the root gets level 0, a component reachable from the root the length of
\* its shortest path from it, any other component level 1; y = 50 + 150 * level;
\* the x values of one level are distinct, 200 apart and centred on 500, so no
\* position is used twice; and a component's level is the same for every order
\* of the component list and of the edge list.
C26_LayoutLevelsAndPositions ==
    ly_pc = "done" =>
        /\ \A i \in DOMAIN ly_components :
              /\ ly_placed[i].level = ClaimedLevel(ly_components[i].id)
              /\ ly_placed[i].y = TopMargin + LevelStep * ly_placed[i].level
        /\ \A i, j \in DOMAIN ly_components :
              i # j => <<ly_placed[i].x, ly_placed[i].y>> # <<ly_placed[j].x, ly_placed[j].y>>
        /\ \A i \in DOMAIN ly_components :
              LET group == {j \in DOMAIN ly_components :
                              ly_placed[j].level = ly_placed[i].level}
                  n == Cardinality(group)
              IN  {ly_placed[j].x : j \in group}
                    = {CanvasCenter - 100 * (n - 1) + SlotWidth * k : k \in 0..(n - 1)}
        /\ \A cp \in Permutations(DOMAIN ly_components) :
           \A ep \in Permutations(DOMAIN ly_edges) :
           \A id \in LayoutIds :
              LevelById(Reordered(ly_components, cp), Reordered(ly_edges, ep), id)
                = LevelById(ly_components, ly_edges, id)

-----------------------------------------------------------------------------
(* Readiness after a refinement.                                           *)

\* C27: after a refine in which the service returned a brief with no questions,
\* at least two non-root components and at least one goal, the refined brief
\* is ready for design: its refinement count is at least 1 and it still has no
\* questions.
C27_ReadyAfterRefine ==
    (rf_pc = "done" /\ rf_service.ok /\ rf_service.brief.questions = 0
       /\ rf_service.brief.nonroot >= 2 /\ rf_service.brief.goals >= 1)
        => /\ IsReadyForDesign(rf_refined)
           /\ rf_refined.iteration >= 1
           /\ rf_refined.questions = 0

-----------------------------------------------------------------------------
(* The execution order on arbitrary edge lists.                             *)

\* C28: for every edge list, with cycles, self-loops and edges whose endpoints
\* are not planned, the traversal terminates and the order it returns lists
\* every planned id exactly once, lists no root and no unplanned id, and its
\* k-th entry has phase k.  Termination is the evaluation of
\* DetermineExecutionOrder on every enumerated input: the recursion of Visit
\* is the recursion of visit, and the order of a state is its finished value.
C28_EachPlannedOnceInPhaseOrder ==
    order_pc = "done" =>
        /\ {order[i].component_id : i \in DOMAIN order} = Planned
        /\ Len(order) = Cardinality(Planned)
        /\ \A i, j \in DOMAIN order :
              i # j => order[i].component_id # order[j].component_id
        /\ \A i \in DOMAIN order : order[i].phase = i

\* an order computed from a self-loop, a cycle of two planned components and
\* an edge from the root
C28_Witness ==
    /\ order_pc = "done"
    /\ plans = <<"A", "B">>
    /\ edges = <<[from_id |-> "A", to_id |-> "A"],
                 [from_id |-> "B", to_id |-> "A"],
                 [from_id |-> "A", to_id |-> "B"]>>
    /\ Len(order) = 2

-----------------------------------------------------------------------------
(* Launches of one agent against its quotas.                                *)

\* launches started in the interval [from, from + window)
LaunchesWithin(from, window) ==
    Cardinality({j \in DOMAIN launch_times :
                    launch_times[j] >= from /\ launch_times[j] < from + window})

\* C29: for one agent used from one thread, whatever its attempts do, the
\* launches started within any 60-second interval are at most
\* requests_per_minute and those within any 3600-second interval at most
\* requests_per_hour (an interval with the most launches starts at a launch).
C29_LaunchesWithinQuota ==
    \A i \in DOMAIN launch_times :
        /\ LaunchesWithin(launch_times[i], MinuteWindow) <= rpm
        /\ LaunchesWithin(launch_times[i], HourWindow) <= rph

-----------------------------------------------------------------------------
(* Threads sharing one limiter.                                             *)

\* timestamps recorded in the interval [from, from + window)
RecordedWithin(from, window) ==
    Cardinality({j \in DOMAIN sh_recorded :
                    sh_recorded[j] >= from /\ sh_recorded[j] < from + window})

\* C30: when several threads share one limiter and follow wait_if_needed,
\* call, record_call, then under every interleaving the timestamps recorded
\* within any 60-second interval are at most requests_per_minute (an interval
\* with the most timestamps starts at a timestamp).
C30_SharedAdmissionWithinQuota ==
    \A i \in DOMAIN sh_recorded :
        RecordedWithin(sh_recorded[i], MinuteWindow) <= sh_rpm

=============================================================================
